---- MODULE Spec2Model ----
(***************************************************************************)
(* Model of the vocabulary flashcard application: the word store and the   *)
(* study log (js/data.js over js/storage.js), the daily word selection and *)
(* the study session (js/quiz.js).                                         *)
(*                                                                         *)
(* JavaScript arrays are modelled as sequences (index 1 is JS index 0),    *)
(* `null` sessions as the empty sequence <<>> and a present session as the *)
(* one-element sequence holding the session object.                        *)
(***************************************************************************)
EXTENDS Integers, Sequences, FiniteSets, TLC

VARIABLES
    words,      \* localStorage 'vocab_words': array of word objects
    categories, \* localStorage 'vocab_categories': array of category objects
    ids,        \* history: how many word ids and how many category ids
                \* generateId() has produced
    settings,   \* localStorage 'vocab_settings' merged with the defaults
    studyLog,   \* localStorage 'vocab_study_log': date -> {count, categoryId}
    date,       \* the calendar day today() returns
    session,    \* quiz.js `let session`: <<>> (null) or <<session object>>
    ret,        \* history: the last call of the public API (op, argument) and
                \* the value it returned
    started,    \* history: number of sessions installed by startSession
    commits,    \* history: the counts passed to recordStudy for the current
                \* session, in call order
    run,        \* history: per word id, the consecutive correct answers since
                \* the word was last at wrongCount > 0, correctStreak = 0
                \* (-1: the word is not in such a run)
    card,       \* card.js: the study page (what the card shows, which
                \* elements are hidden, the pending transition timers)
    wordForm    \* settings.js: the word form of the settings page (its
                \* inputs and the click handlers of its button)

vars == <<words, categories, ids, settings, studyLog, date, session, ret, started,
          commits, run, card, wordForm>>

\* the pages: no call of the quiz or of the data layer touches them
dom == <<card, wordForm>>

----------------------------------------------------------------------------
(* Bounds of the model *)

MaxWords    == 3    \* words in a store of the selection specification
StoreWords  == 2    \* words in the store of the session specification
MaxGoal     == 3    \* largest settings.dailyGoal
MaxStreak   == 2    \* largest settings.graduationStreak
MaxWrong    == 2    \* largest wrongCount of a word in an initial store
MaxSessions == 2    \* sessions started in one behaviour
MaxDate     == 2    \* calendar days in one behaviour
MaxLevel    == 2    \* largest number typed into the settings form
WideWords   == 5    \* words in a store of the wide selection specification
MaxCategories == 3  \* category ids generated in one behaviour
MaxIds      == 2    \* word ids generated in a behaviour of the data layer
MaxRows     == 2    \* rows of one bulkAddWords

\* storage.js DEFAULT_SETTINGS
DefaultGraduationStreak == 3
DefaultDailyGoal        == 10
DefaultGrassLevel1      == 10
DefaultGrassLevel2      == 20
DefaultGrassLevel3      == 30

WordIds    == 1..MaxWords
Categories == {"c1", "c2"}
Scopes     == Categories \cup {"all", "wrong"}
CreatedAts == {1, 2}

----------------------------------------------------------------------------
(* Array helpers of JavaScript, as the code uses them *)

Min(a, b) == IF a < b THEN a ELSE b
Max(a, b) == IF a > b THEN a ELSE b

\* Array.prototype.slice(0, end): a negative end counts from the end of the array
slice(arr, end) ==
    LET n == Len(arr)
        k == IF end < 0 THEN Max(n + end, 0) ELSE Min(end, n)
    IN  SubSeq(arr, 1, k)

\* comparator (a, b) => b.wrongCount - a.wrongCount
byWrongCountDesc(a, b) == b.wrongCount - a.wrongCount

\* comparator (a, b) => a.createdAt.localeCompare(b.createdAt) on YYYY-MM-DD days
byCreatedAt(a, b) ==
    IF a.createdAt < b.createdAt THEN -1
    ELSE IF a.createdAt > b.createdAt THEN 1 ELSE 0

\* the comparator function named cmp, applied to a and b
compare(cmp, a, b) ==
    IF cmp = "byWrongCountDesc" THEN byWrongCountDesc(a, b) ELSE byCreatedAt(a, b)

\* Array.prototype.sort(cmp): stable; a is placed before b when cmp(a, b) < 0
sort(arr, cmp) ==
    LET n == Len(arr)
        rank(i) == 1 + Cardinality({j \in 1..n :
                        \/ compare(cmp, arr[j], arr[i]) < 0
                        \/ (compare(cmp, arr[j], arr[i]) = 0 /\ j < i)})
    IN  [p \in 1..n |-> arr[CHOOSE i \in 1..n : rank(i) = p]]

\* findIndex(w => w.id === id): 0 stands for JavaScript's -1
findIndex(arr, id) ==
    IF \E i \in 1..Len(arr) : arr[i].id = id
    THEN CHOOSE i \in 1..Len(arr) :
            arr[i].id = id /\ \A j \in 1..(i - 1) : arr[j].id # id
    ELSE 0

\* the numbers Math.random() yields in one run of shuffle: for the position i
\* (from the last down to the second) an index j <= i
RandomDraws(n) == {rnd \in [2..n -> 1..n] : \A i \in 2..n : rnd[i] <= i}

\* mutation: the element drawn is copied, not swapped
RECURSIVE FisherYates_NoSwap(_, _, _)
FisherYates_NoSwap(result, i, rnd) ==
    IF i <= 1 THEN result
    ELSE FisherYates_NoSwap([result EXCEPT ![i] = result[rnd[i]]], i - 1, rnd)

RECURSIVE FisherYates(_, _, _)
FisherYates(result, i, rnd) ==
    IF i <= 1 THEN result
    ELSE FisherYates([result EXCEPT ![i] = result[rnd[i]], ![rnd[i]] = result[i]],
                     i - 1, rnd)

\* quiz.js shuffle: every array Fisher-Yates can return
shuffle(arr) == {FisherYates(arr, Len(arr), rnd) : rnd \in RandomDraws(Len(arr))}

----------------------------------------------------------------------------
(* data.js: reads *)

getWords == words

getWordsByCategory(categoryId) ==
    SelectSeq(getWords, LAMBDA w : w.categoryId = categoryId)

\* mutation: the wrongCount >= 1 filter is lost
getWrongWords_NoFilter == sort(getWords, "byWrongCountDesc")

getWrongWords ==
    sort(SelectSeq(getWords, LAMBDA w : w.wrongCount >= 1), "byWrongCountDesc")

----------------------------------------------------------------------------
(* quiz.js: daily word selection *)

\* mutation: only one slot is kept for new words
maxWrongOf_OneNew(dailyGoal) == dailyGoal - 1

\* `maxWrong` of buildDailyWords
maxWrongOf(dailyGoal) == dailyGoal - 2

\* the wrong words of the pool, most missed first, cut to maxWrong
wrongWordsOf(allWords, dailyGoal) ==
    slice(sort(SelectSeq(allWords, LAMBDA w : w.wrongCount >= 1), "byWrongCountDesc"),
          maxWrongOf(dailyGoal))

\* the new words of the pool, oldest first
newWordsOf(allWords, wrongWords) ==
    LET wrongIds == {wrongWords[i].id : i \in 1..Len(wrongWords)}
    IN  sort(SelectSeq(allWords,
                 LAMBDA w : w.wrongCount = 0 /\ w.id \notin wrongIds),
             "byCreatedAt")

\* `selected` of buildDailyWords, before the final shuffle
selectedOf(allWords, dailyGoal) ==
    LET wrongWords == wrongWordsOf(allWords, dailyGoal)
        newWords   == newWordsOf(allWords, wrongWords)
        newCount   == dailyGoal - Len(wrongWords)
    IN  wrongWords \o slice(newWords, newCount)

poolOf(categoryId) ==
    IF categoryId = "all" THEN getWords ELSE getWordsByCategory(categoryId)

\* every array buildDailyWords(categoryId) can return
buildDailyWords(categoryId) ==
    IF categoryId = "wrong"
    THEN {slice(s, settings.dailyGoal) : s \in shuffle(getWrongWords)}
    ELSE shuffle(selectedOf(poolOf(categoryId), settings.dailyGoal))

----------------------------------------------------------------------------
(* data.js: writes *)

\* mutation: graduation one answer late (> for >=)
correctWord_Late(w, graduationStreak) ==
    LET streak == w.correctStreak + 1
    IN  IF w.wrongCount > 0 /\ streak > graduationStreak
        THEN [w EXCEPT !.wrongCount = 0, !.correctStreak = 0]
        ELSE [w EXCEPT !.correctStreak = streak]

\* the word object markCorrect stores for a word
correctWord(w, graduationStreak) ==
    LET streak == w.correctStreak + 1
    IN  IF w.wrongCount > 0 /\ streak >= graduationStreak
        THEN [w EXCEPT !.wrongCount = 0, !.correctStreak = 0]
        ELSE [w EXCEPT !.correctStreak = streak]

\* mutation: the streak survives a wrong answer
wrongWord_KeepStreak(w) ==
    [w EXCEPT !.wrongCount = w.wrongCount + 1]

\* the word object markWrong stores for a word
wrongWord(w) ==
    [w EXCEPT !.wrongCount = w.wrongCount + 1, !.correctStreak = 0]

markCorrect(ws, id) ==
    LET idx == findIndex(ws, id)
    IN  IF idx = 0 THEN ws
        ELSE [ws EXCEPT ![idx] = correctWord(ws[idx], settings.graduationStreak)]

\* mutation: a word that is no longer stored is stored again, from the copy
\* the session holds
markWrong_Recreate(ws, id) ==
    LET idx  == findIndex(ws, id)
        copy == session[1].words[session[1].currentIndex + 1]
    IN  IF idx = 0 THEN Append(ws, wrongWord(copy))
        ELSE [ws EXCEPT ![idx] = wrongWord(ws[idx])]

\* mutation: the counters are computed from the copy the session holds
markWrong_FromCopy(ws, id) ==
    LET idx  == findIndex(ws, id)
        copy == session[1].words[session[1].currentIndex + 1]
    IN  IF idx = 0 THEN ws
        ELSE [ws EXCEPT ![idx] = wrongWord(copy)]

markWrong(ws, id) ==
    LET idx == findIndex(ws, id)
    IN  IF idx = 0 THEN ws
        ELSE [ws EXCEPT ![idx] = wrongWord(ws[idx])]

\* mutation: the entry of the day takes the category of the last session
recordStudy_LastScope(log, key, count, categoryId) ==
    LET prev == IF key \in DOMAIN log THEN log[key]
                ELSE [count |-> 0, categoryId |-> categoryId]
        entry == [count |-> prev.count + count, categoryId |-> categoryId]
    IN  [d \in DOMAIN log \cup {key} |-> IF d = key THEN entry ELSE log[d]]

\* the study log after recordStudy(count, categoryId) on day key
recordStudy(log, key, count, categoryId) ==
    LET prev == IF key \in DOMAIN log THEN log[key]
                ELSE [count |-> 0, categoryId |-> categoryId]
        entry == [count      |-> prev.count + count,
                  categoryId |-> IF prev.categoryId # "" THEN prev.categoryId
                                 ELSE categoryId]
    IN  [d \in DOMAIN log \cup {key} |-> IF d = key THEN entry ELSE log[d]]

----------------------------------------------------------------------------
(* quiz.js: the session *)

NoSession == <<>>
HasSession == session # NoSession
Sess == session[1]

\* mutation: past the end the last card is returned again
currentWord_PastEnd ==
    IF ~HasSession THEN <<>>
    ELSE <<Sess.words[Min(Sess.currentIndex + 1, Len(Sess.words))]>>

\* currentWord(): <<>> stands for null, <<w>> for the word w
currentWord ==
    IF ~HasSession THEN <<>>
    ELSE IF Sess.currentIndex + 1 \in 1..Len(Sess.words)
         THEN <<Sess.words[Sess.currentIndex + 1]>>
         ELSE <<>>

\* data.js getWordById(id): <<>> stands for null, <<w>> for the word w
getWordById(id) ==
    IF findIndex(words, id) = 0 THEN <<>> ELSE <<words[findIndex(words, id)]>>

RECURSIVE resolve(_, _)
\* results.map(r => Data.getWordById(r.wordId)).filter(Boolean), from result i
resolve(results, i) ==
    IF i > Len(results) THEN <<>>
    ELSE getWordById(results[i].wordId) \o resolve(results, i + 1)

\* mutation: the wrong words are the copies the session holds
getSessionResult_Copies ==
    IF ~HasSession THEN <<>>
    ELSE LET total   == Len(Sess.results)
             correct == Len(SelectSeq(Sess.results, LAMBDA r : r.correct))
             missed  == SelectSeq(Sess.results, LAMBDA r : ~r.correct)
         IN  <<[total      |-> total,
                correct    |-> correct,
                wrong      |-> total - correct,
                wrongWords |-> [k \in 1..Len(missed) |->
                                  Sess.words[findIndex(Sess.words,
                                                       missed[k].wordId)]],
                categoryId |-> Sess.categoryId]>>

\* getSessionResult(): <<>> stands for null, <<r>> for the result object r
getSessionResult ==
    IF ~HasSession THEN <<>>
    ELSE LET total   == Len(Sess.results)
             correct == Len(SelectSeq(Sess.results, LAMBDA r : r.correct))
             missed  == SelectSeq(Sess.results, LAMBDA r : ~r.correct)
         IN  <<[total      |-> total,
                correct    |-> correct,
                wrong      |-> total - correct,
                wrongWords |-> resolve(missed, 1),
                categoryId |-> Sess.categoryId]>>

\* getProgress(); percent = Math.round(current / total * 100)
getProgress ==
    IF ~HasSession THEN [current |-> 0, total |-> 0, percent |-> 0]
    ELSE LET total   == Len(Sess.words)
             current == Sess.currentIndex
         IN  [current |-> current, total |-> total,
              percent |-> IF total > 0
                          THEN (200 * current + total) \div (2 * total)
                          ELSE 0]

\* the history of runs after a correct / wrong answer on word id
runAfterCorrect(id) ==
    IF findIndex(words, id) = 0 \/ run[id] < 0 THEN run
    ELSE [run EXCEPT ![id] =
            IF run[id] + 1 >= settings.graduationStreak THEN -1 ELSE run[id] + 1]

runAfterWrong(id) ==
    IF findIndex(words, id) = 0 THEN run ELSE [run EXCEPT ![id] = 0]

\* mutation: the index advances by two
nextSession_SkipCard(s) ==
    [s EXCEPT !.isFlipped = FALSE, !.currentIndex = s.currentIndex + 2]

\* mutation: the index does not advance
nextSession_Stay(s) == [s EXCEPT !.isFlipped = FALSE]

\* mutation: the card stays turned
nextSession_KeepFlip(s) ==
    [s EXCEPT !.currentIndex = s.currentIndex + 1]

\* the session after the first two statements of _next(): the card is turned
\* back and the index advances
nextSession(s) ==
    [s EXCEPT !.isFlipped = FALSE, !.currentIndex = s.currentIndex + 1]

\* mutation: done one card early
isDone_Early(s) == s.currentIndex >= Len(s.words) - 1

\* `done` of _next()
isDone(s) == s.currentIndex >= Len(s.words)

\* _next() and _finishSession(): the session moves on; when it is done the
\* study of the day is recorded
next_(s) ==
    LET s2    == nextSession(s)
        done  == isDone(s2)
        count == Len(s2.results)
    IN  /\ session' = <<s2>>
        /\ IF done
           THEN /\ studyLog' = recordStudy(studyLog, date, count, s2.categoryId)
                /\ commits' = Append(commits, count)
           ELSE UNCHANGED <<studyLog, commits>>
        /\ ret' = [op |-> "answer", null |-> FALSE, done |-> done,
                   index |-> s2.currentIndex, total |-> Len(s2.words)]

\* mutation: the empty selection is not rejected
isEmptySelection_Never(ws) == Len(ws) < 0

\* the test `words.length === 0` of startSession
isEmptySelection(ws) == Len(ws) = 0

startSession(categoryId) ==
    \E ws \in buildDailyWords(categoryId) :
        IF isEmptySelection(ws)
        THEN /\ ret' = [op |-> "startSession", categoryId |-> categoryId,
                        ok |-> FALSE]
             /\ UNCHANGED <<words, categories, ids, settings, studyLog, date,
                            session, started, commits, run>>
        ELSE /\ session' = <<[categoryId   |-> categoryId,
                              words        |-> ws,
                              currentIndex |-> 0,
                              results      |-> <<>>,
                              isFlipped    |-> FALSE]>>
             /\ ret' = [op |-> "startSession", categoryId |-> categoryId,
                        ok |-> TRUE]
             /\ started' = started + 1
             /\ commits' = <<>>
             /\ UNCHANGED <<words, categories, ids, settings, studyLog, date,
                            run>>

\* mutation: the card is turned face up, whatever side showed
flipped_Up(s) == [s EXCEPT !.isFlipped = TRUE]

\* `session.isFlipped = !session.isFlipped` of flipCard()
flipped(s) == [s EXCEPT !.isFlipped = ~s.isFlipped]

clearSession ==
    /\ session' = NoSession
    /\ ret' = [op |-> "clearSession"]
    /\ UNCHANGED <<words, categories, ids, settings, studyLog, date, started,
                   commits, run>>

flipCard ==
    IF ~HasSession
    THEN /\ ret' = [op |-> "flipCard", null |-> TRUE]
         /\ UNCHANGED <<words, categories, ids, settings, studyLog, date,
                        session, started, commits, run>>
    ELSE /\ session' = <<flipped(Sess)>>
         /\ ret' = [op |-> "flipCard", null |-> FALSE,
                    value |-> flipped(Sess).isFlipped]
         /\ UNCHANGED <<words, categories, ids, settings, studyLog, date,
                        started, commits, run>>

answerCorrect ==
    IF currentWord = <<>>
    THEN /\ ret' = [op |-> "answer", null |-> TRUE]
         /\ UNCHANGED <<words, categories, ids, settings, studyLog, date,
                        session, started, commits, run>>
    ELSE LET word == currentWord[1]
         IN  /\ words' = markCorrect(words, word.id)
             /\ run' = runAfterCorrect(word.id)
             /\ next_([Sess EXCEPT !.results =
                         Append(@, [wordId |-> word.id, correct |-> TRUE])])
             /\ UNCHANGED <<categories, ids, settings, date, started>>

answerWrong ==
    IF currentWord = <<>>
    THEN /\ ret' = [op |-> "answer", null |-> TRUE]
         /\ UNCHANGED <<words, categories, ids, settings, studyLog, date,
                        session, started, commits, run>>
    ELSE LET word == currentWord[1]
         IN  /\ words' = markWrong(words, word.id)
             /\ run' = runAfterWrong(word.id)
             /\ next_([Sess EXCEPT !.results =
                         Append(@, [wordId |-> word.id, correct |-> FALSE])])
             /\ UNCHANGED <<categories, ids, settings, date, started>>

\* midnight passes: today() returns the next day
nextDay ==
    /\ date < MaxDate
    /\ date' = date + 1
    /\ UNCHANGED <<words, categories, ids, settings, studyLog, session, ret,
                   started, commits, run>>

----------------------------------------------------------------------------
(* data.js: categories and words.  The operations are functions of the     *)
(* store st = [words, categories, ids] to a result [st, ok, ...], so that  *)
(* bulkAddWords can apply them row after row; the actions below install    *)
(* the resulting store.                                                    *)

\* String.prototype.trim on the strings of the model
trim(str) ==
    CASE str = " "    -> ""
      [] str = " n1 " -> "n1"
      [] str = " t "  -> "t"
      [] OTHER        -> str

\* generateId(): the n-th category id (word ids are the numbers themselves)
CategoryId(n) == "c" \o ToString(n)

Store == [words |-> words, categories |-> categories, ids |-> ids]

\* getCategoryById(id) !== null
hasCategory(st, id) == findIndex(st.categories, id) # 0

\* categories.find(c => c.name === name): its position, 0 when there is none
findByName(cats, name) ==
    IF \E i \in 1..Len(cats) : cats[i].name = name
    THEN CHOOSE i \in 1..Len(cats) :
            /\ cats[i].name = name
            /\ \A j \in 1..(i - 1) : cats[j].name # name
    ELSE 0

addCategoryTo(st, name) ==
    LET trimmed == trim(name)
        n       == st.ids.categories + 1
        newCategory == [id |-> CategoryId(n), name |-> trimmed,
                        isDefault |-> FALSE, createdAt |-> date]
    IN  IF trimmed = "" THEN [st |-> st, ok |-> FALSE, id |-> ""]
        ELSE IF findByName(st.categories, trimmed) # 0
        THEN [st |-> st, ok |-> FALSE, id |-> ""]
        ELSE [st |-> [st EXCEPT !.categories = Append(@, newCategory),
                                !.ids.categories = n],
              ok |-> TRUE, id |-> newCategory.id]

\* mutation: the words of the category stay
deleteCategoryFrom_KeepWords(st, id) ==
    IF ~hasCategory(st, id) THEN [st |-> st, ok |-> FALSE]
    ELSE [st |-> [st EXCEPT
                    !.categories = SelectSeq(@, LAMBDA c : c.id # id)],
          ok |-> TRUE]

deleteCategoryFrom(st, id) ==
    IF ~hasCategory(st, id) THEN [st |-> st, ok |-> FALSE]
    ELSE [st |-> [st EXCEPT
                    !.words = SelectSeq(@, LAMBDA w : w.categoryId # id),
                    !.categories = SelectSeq(@, LAMBDA c : c.id # id)],
          ok |-> TRUE]

renameCategoryIn(st, id, newName) ==
    LET trimmed == trim(newName)
        idx     == findIndex(st.categories, id)
    IN  IF trimmed = "" THEN [st |-> st, ok |-> FALSE]
        ELSE IF idx = 0 THEN [st |-> st, ok |-> FALSE]
        ELSE [st |-> [st EXCEPT !.categories[idx].name = trimmed],
              ok |-> TRUE]

addWordTo(st, fields) ==
    LET n       == st.ids.words + 1
        newWord == [id            |-> n,
                    japanese      |-> trim(fields.japanese),
                    furigana      |-> trim(fields.furigana),
                    korean        |-> trim(fields.korean),
                    categoryId    |-> fields.categoryId,
                    wrongCount    |-> 0,
                    correctStreak |-> 0,
                    createdAt     |-> date]
    IN  IF \/ trim(fields.japanese) = ""
           \/ trim(fields.korean) = ""
           \/ fields.categoryId = ""
           \/ ~hasCategory(st, fields.categoryId)
        THEN [st |-> st, ok |-> FALSE]
        ELSE [st |-> [st EXCEPT !.words = Append(@, newWord), !.ids.words = n],
              ok |-> TRUE]

\* mutation: every key of the fields object is copied
allowed_Any ==
    {"japanese", "furigana", "korean", "categoryId", "id", "wrongCount",
     "correctStreak", "createdAt"}

\* the fields updateWord may change
allowed == {"japanese", "furigana", "korean", "categoryId"}

\* fields is a function on the keys that are not undefined
updateWordIn(st, id, fields) ==
    LET idx     == findIndex(st.words, id)
        word    == st.words[idx]
        updated == [key \in DOMAIN word |->
                      IF key \in allowed \cap DOMAIN fields
                      THEN fields[key] ELSE word[key]]
    IN  IF idx = 0 THEN [st |-> st, ok |-> FALSE]
        ELSE [st |-> [st EXCEPT !.words[idx] = updated], ok |-> TRUE]

deleteWordFrom(st, id) ==
    IF findIndex(st.words, id) = 0 THEN [st |-> st, ok |-> FALSE]
    ELSE [st |-> [st EXCEPT !.words = SelectSeq(@, LAMBDA w : w.id # id)],
          ok |-> TRUE]

\* one row of bulkAddWords: the category is found by its name or created,
\* then the word is added; r is [st, added]
bulkAddRow(r, row) ==
    LET categoryName == trim(row.categoryName)
        existing     == findByName(r.st.categories, categoryName)
        created      == addCategoryTo(r.st, categoryName)
        categoryId   == IF existing # 0 THEN r.st.categories[existing].id
                        ELSE created.id
        st2          == IF existing # 0 THEN r.st ELSE created.st
        result       == addWordTo(st2, [japanese   |-> row.japanese,
                                        furigana   |-> row.furigana,
                                        korean     |-> row.korean,
                                        categoryId |-> categoryId])
    IN  IF categoryName = "" THEN r
        ELSE IF existing = 0 /\ ~created.ok THEN r
        ELSE [st |-> result.st,
              added |-> IF result.ok THEN r.added + 1 ELSE r.added]

RECURSIVE bulkAddFrom(_, _, _)
bulkAddFrom(r, rows, i) ==
    IF i > Len(rows) THEN r
    ELSE bulkAddFrom(bulkAddRow(r, rows[i]), rows, i + 1)

bulkAddWordsTo(st, rows) == bulkAddFrom([st |-> st, added |-> 0], rows, 1)

\* the store becomes st; the other variables of the program are untouched
install(st) ==
    /\ words' = st.words
    /\ categories' = st.categories
    /\ ids' = st.ids
    /\ UNCHANGED <<settings, studyLog, date, session, started, commits, run>>

addCategory(name) ==
    LET r == addCategoryTo(Store, name)
    IN  /\ install(r.st)
        /\ ret' = [op |-> "addCategory", ok |-> r.ok]

deleteCategory(id) ==
    LET r == deleteCategoryFrom(Store, id)
    IN  /\ install(r.st)
        /\ ret' = [op |-> "deleteCategory", id |-> id, ok |-> r.ok]

renameCategory(id, newName) ==
    LET r == renameCategoryIn(Store, id, newName)
    IN  /\ install(r.st)
        /\ ret' = [op |-> "renameCategory", ok |-> r.ok]

addWord(fields) ==
    LET r == addWordTo(Store, fields)
    IN  /\ install(r.st)
        /\ ret' = [op |-> "addWord", ok |-> r.ok]

updateWord(id, fields) ==
    LET r == updateWordIn(Store, id, fields)
    IN  /\ install(r.st)
        /\ ret' = [op |-> "updateWord", ok |-> r.ok]

deleteWord(id) ==
    LET r == deleteWordFrom(Store, id)
    IN  /\ install(r.st)
        /\ ret' = [op |-> "deleteWord", ok |-> r.ok]

bulkAddWords(rows) ==
    LET r == bulkAddWordsTo(Store, rows)
    IN  /\ install(r.st)
        /\ ret' = [op |-> "bulkAddWords", added |-> r.added]

\* the history of runs of a store just read
initialRun(ws) ==
    [id \in {ws[i].id : i \in 1..Len(ws)} |->
        IF \E i \in 1..Len(ws) : ws[i].id = id /\ ws[i].wrongCount > 0
                                 /\ ws[i].correctStreak = 0
        THEN 0 ELSE -1]

\* storage.js importAll(data) of a backup object: every part present in the
\* backup replaces the stored one
importAll(data) ==
    /\ words' = IF "words" \in DOMAIN data THEN data.words ELSE words
    /\ categories' = IF "categories" \in DOMAIN data THEN data.categories
                     ELSE categories
    /\ studyLog' = IF "studyLog" \in DOMAIN data THEN data.studyLog
                   ELSE studyLog
    /\ settings' = IF "settings" \in DOMAIN data THEN data.settings
                   ELSE settings
    /\ run' = initialRun(words')
    /\ ret' = [op |-> "importAll", ok |-> TRUE]
    /\ UNCHANGED <<ids, date, session, started, commits>>

----------------------------------------------------------------------------
(* settings.js: the settings form.  A number is <<n>>, NaN is <<>>; NaN is  *)
(* stored as null (JSON.stringify), which is <<>> too.                      *)

\* what the five inputs of the form may hold
FormInputs == {ToString(n) : n \in 0..MaxLevel} \cup {"", "abc", "1.5"}

\* parseInt(str, 10) on the strings of the model: the leading integer, or NaN
parseInt(str) ==
    IF \E n \in 0..MaxLevel : ToString(n) = str
    THEN <<CHOOSE n \in 0..MaxLevel : ToString(n) = str>>
    ELSE CASE str = "1.5" -> <<1>>
           [] OTHER       -> <<>>

isNaN(x) == x = <<>>

\* the comparisons a < b and a >= b of JavaScript: false when a or b is NaN
lessThan(a, b)  == ~isNaN(a) /\ ~isNaN(b) /\ a[1] < b[1]
atLeast(a, b)   == ~isNaN(a) /\ ~isNaN(b) /\ a[1] >= b[1]

\* the test of handleSaveSettings: one of its four `return showMsg` is taken
isRejected(dailyGoal, graduationStreak, grassLevel1, grassLevel2, grassLevel3) ==
    \/ isNaN(dailyGoal) \/ lessThan(dailyGoal, <<1>>)
    \/ isNaN(graduationStreak) \/ lessThan(graduationStreak, <<1>>)
    \/ atLeast(grassLevel1, grassLevel2)
    \/ atLeast(grassLevel2, grassLevel3)

\* handleSaveSettings() with the form holding the five strings of form
handleSaveSettings(form) ==
    LET dailyGoal        == parseInt(form.dailyGoal)
        graduationStreak == parseInt(form.graduationStreak)
        grassLevel1      == parseInt(form.grassLevel1)
        grassLevel2      == parseInt(form.grassLevel2)
        grassLevel3      == parseInt(form.grassLevel3)
        rejected == isRejected(dailyGoal, graduationStreak, grassLevel1,
                               grassLevel2, grassLevel3)
    IN  /\ settings' =
              IF rejected THEN settings
              ELSE [dailyGoal        |-> dailyGoal[1],
                    graduationStreak |-> graduationStreak[1],
                    grassLevel1      |-> grassLevel1,
                    grassLevel2      |-> grassLevel2,
                    grassLevel3      |-> grassLevel3]
        /\ ret' = [op |-> "handleSaveSettings", saved |-> ~rejected]
        /\ UNCHANGED <<words, categories, ids, studyLog, date, session,
                       started, commits, run>>

----------------------------------------------------------------------------
(* card.js: the study page.  rendered is the id of the word whose content   *)
(* the card shows (0: none yet); timers counts the pending callbacks of     *)
(* setTimeout(() => renderCard(), 500); bound tells whether bindEvents has  *)
(* registered the click handlers.                                           *)

NoCard ==
    [rendered |-> 0, flipped |-> FALSE, cardHidden |-> TRUE,
     buttonsHidden |-> TRUE, timers |-> 0, bound |-> FALSE]

\* renderCard() when Quiz.currentWord() returns word
renderCard(c, word) ==
    IF word = <<>> THEN c
    ELSE [c EXCEPT !.rendered = word[1].id, !.flipped = FALSE,
                   !.buttonsHidden = TRUE]

showStudyView(c) == [c EXCEPT !.cardHidden = FALSE]

showResultView(c) == [c EXCEPT !.cardHidden = TRUE, !.buttonsHidden = TRUE]

showError(c) == [c EXCEPT !.cardHidden = TRUE, !.buttonsHidden = TRUE]

bindEvents(c) == [c EXCEPT !.bound = TRUE]

nextCardWithTransition(c) ==
    [c EXCEPT !.buttonsHidden = TRUE, !.flipped = FALSE, !.timers = @ + 1]

\* Card.startStudy(categoryId), called by App.navigateTo
startStudy(categoryId) ==
    /\ startSession(categoryId)
    /\ card' = IF ~ret'.ok THEN showError(card)
               ELSE bindEvents(renderCard(showStudyView(card), currentWord'))
    /\ UNCHANGED wordForm

\* a click on the card, which is on the page: handleCardFlip()
handleCardFlip ==
    /\ card.bound /\ ~card.cardHidden
    /\ IF HasSession /\ Sess.isFlipped
       THEN UNCHANGED vars
       ELSE /\ flipCard
            /\ card' = [card EXCEPT !.flipped = TRUE, !.buttonsHidden = FALSE]
            /\ UNCHANGED wordForm

\* what handleCorrect and handleWrong do with the value the quiz returned
afterAnswer(c, next) ==
    IF next.null THEN c
    ELSE IF next.done THEN showResultView(c)
    ELSE nextCardWithTransition(c)

\* a click on the correct button, which is on the page: handleCorrect()
handleCorrect ==
    /\ card.bound /\ ~card.buttonsHidden
    /\ answerCorrect
    /\ card' = afterAnswer(card, ret')
    /\ UNCHANGED wordForm

\* a click on the wrong button, which is on the page: handleWrong()
handleWrong ==
    /\ card.bound /\ ~card.buttonsHidden
    /\ answerWrong
    /\ card' = afterAnswer(card, ret')
    /\ UNCHANGED wordForm

\* a transition timer fires: renderCard()
transitionEnd ==
    /\ card.timers > 0
    /\ card' = renderCard([card EXCEPT !.timers = @ - 1], currentWord)
    /\ ret' = [op |-> "renderCard"]
    /\ UNCHANGED <<words, categories, ids, settings, studyLog, date, session,
                   started, commits, run, wordForm>>

----------------------------------------------------------------------------
(* settings.js: the word form.  japanese, furigana and korean are the       *)
(* values of the three inputs, categoryId the value of the select, onclick  *)
(* the handler in the onclick property of the button btnAddWord.  The       *)
(* listener handleAddWord, which bindEvents registers with                  *)
(* addEventListener, stays registered, and was registered before onclick    *)
(* is first assigned: on a click it runs first, the onclick handler second. *)

NoHandler == [handler |-> "none", id |-> 0]

\* the form after Settings.init()
EmptyForm ==
    [japanese |-> "", furigana |-> "", korean |-> "", categoryId |-> "",
     onclick |-> NoHandler]

clearWordForm(form) ==
    [form EXCEPT !.japanese = "", !.furigana = "", !.korean = ""]

resetAddWordButton(form) ==
    [form EXCEPT !.onclick = [handler |-> "handleAddWord", id |-> 0]]

\* handleAddWord() on the store and the form of x
handleAddWordOn(x) ==
    LET result == addWordTo(x.st, [japanese   |-> trim(x.form.japanese),
                                   furigana   |-> trim(x.form.furigana),
                                   korean     |-> trim(x.form.korean),
                                   categoryId |-> x.form.categoryId])
    IN  IF ~result.ok THEN x
        ELSE [st |-> result.st, form |-> clearWordForm(x.form)]

\* handleSaveEdit(id) on the store and the form of x
handleSaveEditOn(x, id) ==
    LET result == updateWordIn(x.st, id, [japanese   |-> trim(x.form.japanese),
                                          furigana   |-> trim(x.form.furigana),
                                          korean     |-> trim(x.form.korean),
                                          categoryId |-> x.form.categoryId])
    IN  IF ~result.ok THEN x
        ELSE [st |-> result.st,
              form |-> resetAddWordButton(clearWordForm(x.form))]

\* the handler in the onclick property of the button, on x
onclickOn(x) ==
    CASE x.form.onclick.handler = "handleSaveEdit" ->
            handleSaveEditOn(x, x.form.onclick.id)
      [] x.form.onclick.handler = "handleAddWord" -> handleAddWordOn(x)
      [] OTHER -> x

\* the user types into the inputs and picks a category
input(values) ==
    /\ wordForm' = [wordForm EXCEPT !.japanese = values.japanese,
                                    !.furigana = values.furigana,
                                    !.korean = values.korean,
                                    !.categoryId = values.categoryId]
    /\ ret' = [op |-> "input"]
    /\ UNCHANGED <<words, categories, ids, settings, studyLog, date, session,
                   started, commits, run, card>>

\* a click on the edit button of the word id in the list: handleEditWord(id)
handleEditWord(id) ==
    LET word == getWordById(id)
    IN  /\ wordForm' =
              IF word = <<>> THEN wordForm
              ELSE [japanese   |-> word[1].japanese,
                    furigana   |-> word[1].furigana,
                    korean     |-> word[1].korean,
                    categoryId |-> word[1].categoryId,
                    onclick    |-> [handler |-> "handleSaveEdit", id |-> id]]
        /\ ret' = [op |-> "handleEditWord"]
        /\ UNCHANGED <<words, categories, ids, settings, studyLog, date,
                       session, started, commits, run, card>>

\* a click on the button btnAddWord: the listener, then the onclick handler
clickAddWord ==
    LET x == onclickOn(handleAddWordOn([st |-> Store, form |-> wordForm]))
    IN  /\ install(x.st)
        /\ wordForm' = x.form
        /\ ret' = [op |-> "clickAddWord"]
        /\ UNCHANGED card

----------------------------------------------------------------------------
(* Initial states and specifications *)

\* a word object as addWord creates it, with the counters of its history
Word(id, categoryId, wrongCount, createdAt) ==
    [id |-> id, japanese |-> "t", furigana |-> "", korean |-> "t",
     categoryId |-> categoryId, wrongCount |-> wrongCount,
     correctStreak |-> 0, createdAt |-> createdAt]

\* a category object as initDefaultCategories creates it on the first day
DefaultCategory(id, name) ==
    [id |-> id, name |-> name, isDefault |-> TRUE, createdAt |-> 1]

\* the categories of a fresh installation (two of the default names)
DefaultCategories ==
    <<DefaultCategory("c1", "n1"), DefaultCategory("c2", "n2")>>

InitRest ==
    /\ categories = DefaultCategories
    /\ ids = [words |-> Len(words), categories |-> Len(DefaultCategories)]
    /\ studyLog = <<>>
    /\ date = 1
    /\ session = NoSession
    /\ ret = [op |-> "none"]
    /\ started = 0
    /\ commits = <<>>
    /\ run = initialRun(words)
    /\ card = NoCard
    /\ wordForm = EmptyForm

\* the store of the session specification: words 1..StoreWords registered in
\* order on day 1, alternating between the two categories, all new except
\* the first, which has been missed once; the settings are the smallest and
\* the largest dailyGoal and graduationStreak
InitialWords ==
    [i \in 1..StoreWords |->
        Word(i, IF i % 2 = 1 THEN "c1" ELSE "c2", IF i = 1 THEN 1 ELSE 0, 1)]

Init ==
    /\ words = InitialWords
    /\ \E g \in {1, MaxGoal}, s \in {1, MaxStreak} :
          settings = [dailyGoal |-> g, graduationStreak |-> s]
    /\ InitRest

Next ==
    \/ (started < MaxSessions /\ \E categoryId \in Scopes : startSession(categoryId))
          /\ UNCHANGED dom
    \/ clearSession /\ UNCHANGED dom
    \/ flipCard /\ UNCHANGED dom
    \/ answerCorrect /\ UNCHANGED dom
    \/ answerWrong /\ UNCHANGED dom

Spec == Init /\ [][Next]_vars

\* the stores of the selection specification: every store of MaxWords words
\* with any wrongCount up to MaxWrong and any creation day, the first k of
\* category c1 and the others of c2
InitSelect ==
    /\ \E k \in 0..MaxWords, wc \in [WordIds -> 0..MaxWrong],
          d \in [WordIds -> CreatedAts] :
          words = [i \in WordIds |->
                     Word(i, IF i <= k THEN "c1" ELSE "c2", wc[i], d[i])]
    /\ \E g \in 1..MaxGoal :
          settings = [dailyGoal |-> g,
                      graduationStreak |-> DefaultGraduationStreak]
    /\ InitRest

\* the stores of the scope specification: as InitSelect, with every word
\* registered on the first day
InitScope ==
    /\ \E k \in 0..MaxWords, wc \in [WordIds -> 0..MaxWrong] :
          words = [i \in WordIds |->
                     Word(i, IF i <= k THEN "c1" ELSE "c2", wc[i], 1)]
    /\ \E g \in 1..MaxGoal :
          settings = [dailyGoal |-> g,
                      graduationStreak |-> DefaultGraduationStreak]
    /\ InitRest

NextSelect ==
    ~HasSession /\ \E categoryId \in Scopes : startSession(categoryId)
          /\ UNCHANGED dom

SpecSelect == InitSelect /\ [][NextSelect]_vars

SpecScope == InitScope /\ [][NextSelect]_vars

\* the wide stores of the selection: WideWords words of category c1, the
\* first k of them missed once, with any creation days
InitSelectWide ==
    /\ \E k \in 0..WideWords, d \in [1..WideWords -> CreatedAts] :
          words = [i \in 1..WideWords |->
                     Word(i, "c1", IF i <= k THEN 1 ELSE 0, d[i])]
    /\ \E g \in 1..MaxGoal :
          settings = [dailyGoal |-> g,
                      graduationStreak |-> DefaultGraduationStreak]
    /\ InitRest

SpecSelectWide == InitSelectWide /\ [][NextSelect]_vars

\* sessions studied over several days: midnight may pass at any moment, also
\* in the middle of a session
NextDays ==
    \/ (started < MaxSessions /\ \E categoryId \in Scopes : startSession(categoryId))
          /\ UNCHANGED dom
    \/ answerCorrect /\ UNCHANGED dom
    \/ answerWrong /\ UNCHANGED dom
    \/ nextDay /\ UNCHANGED dom

SpecDays == Init /\ [][NextDays]_vars

\* one session while the settings view deletes words and categories of the
\* store under it
NextStore ==
    \/ (started = 0 /\ \E categoryId \in Scopes : startSession(categoryId))
          /\ UNCHANGED dom
    \/ answerCorrect /\ UNCHANGED dom
    \/ answerWrong /\ UNCHANGED dom
    \/ \E id \in 1..StoreWords : deleteWord(id) /\ UNCHANGED dom
    \/ \E id \in Categories : deleteCategory(id) /\ UNCHANGED dom

SpecStore == Init /\ [][NextStore]_vars

\* the fields object of the edits made during a session: the four fields of
\* the edit form, and with them the keys updateWord does not copy
EditInputs ==
    {[japanese |-> "x", furigana |-> "f", korean |-> "k", categoryId |-> "c2",
      id |-> 0, wrongCount |-> 0, correctStreak |-> 0, createdAt |-> 2]}

\* one session while words, and an id that is not stored, are edited
NextEdit ==
    \/ (started = 0 /\ \E categoryId \in Scopes : startSession(categoryId))
          /\ UNCHANGED dom
    \/ clearSession /\ UNCHANGED dom
    \/ flipCard /\ UNCHANGED dom
    \/ answerCorrect /\ UNCHANGED dom
    \/ answerWrong /\ UNCHANGED dom
    \/ \E id \in 1..(StoreWords + 1), fields \in EditInputs :
          updateWord(id, fields) /\ UNCHANGED dom

SpecEdit == Init /\ [][NextEdit]_vars

\* sessions while the backup exported on the first day is restored under them
Backup ==
    [words |-> InitialWords, categories |-> DefaultCategories,
     studyLog |-> <<>>, settings |-> settings]

NextRestore ==
    \/ (started < MaxSessions /\ \E categoryId \in Scopes : startSession(categoryId))
          /\ UNCHANGED dom
    \/ answerCorrect /\ UNCHANGED dom
    \/ answerWrong /\ UNCHANGED dom
    \/ importAll(Backup) /\ UNCHANGED dom

SpecRestore == Init /\ [][NextRestore]_vars

\* the data layer alone, from a consistent store of one word.  The inputs:
\* any category id ever generated, or none; an empty name, the name of a
\* default category with blanks around it, and two more names
CategoryIdInputs == {CategoryId(n) : n \in 1..MaxCategories}
NameInputs       == {"", " n1 ", "n2", "n3"}

\* the words to add: a valid one for any category id or none, one without
\* japanese and one without korean
AddInputs ==
    {[japanese |-> " t ", furigana |-> "", korean |-> "t", categoryId |-> c] :
        c \in CategoryIdInputs \cup {""}}
    \cup {[japanese |-> " ", furigana |-> "", korean |-> "t", categoryId |-> "c1"],
          [japanese |-> "t", furigana |-> "", korean |-> "", categoryId |-> "c1"]}

\* the fields of an updateWord call: none, or a categoryId
UpdateInputs ==
    UNION {[D -> CategoryIdInputs \cup {""}] : D \in SUBSET {"categoryId"}}

\* the rows of a CSV file: a word of a default category, a word of a new
\* category, a word without japanese of a new category, a row without category
RowInputs ==
    {[japanese |-> "t", furigana |-> "", korean |-> "t", categoryName |-> " n1 "],
     [japanese |-> "t", furigana |-> "", korean |-> "t", categoryName |-> "n3"],
     [japanese |-> "",  furigana |-> "", korean |-> "t", categoryName |-> "n3"],
     [japanese |-> "t", furigana |-> "", korean |-> "t", categoryName |-> " "]}

InitData ==
    /\ words = <<Word(1, "c1", 1, 1)>>
    /\ settings = [dailyGoal |-> MaxGoal,
                   graduationStreak |-> DefaultGraduationStreak]
    /\ InitRest

\* generateId() is capped
Capped == ids'.categories <= MaxCategories /\ ids'.words <= MaxIds

NextData ==
    \/ \E name \in NameInputs : addCategory(name) /\ Capped /\ UNCHANGED dom
    \/ \E id \in CategoryIdInputs : deleteCategory(id) /\ UNCHANGED dom
    \/ \E id \in CategoryIdInputs, name \in NameInputs : renameCategory(id, name)
          /\ UNCHANGED dom
    \/ \E fields \in AddInputs : addWord(fields) /\ Capped /\ UNCHANGED dom
    \/ \E id \in 1..MaxIds, fields \in UpdateInputs : updateWord(id, fields)
          /\ UNCHANGED dom
    \/ \E id \in 1..MaxIds : deleteWord(id) /\ UNCHANGED dom
    \/ \E n \in 1..MaxRows : \E rows \in [1..n -> RowInputs] :
          bulkAddWords(rows) /\ Capped /\ UNCHANGED dom

SpecData == InitData /\ [][NextData]_vars

\* categories and words are added and categories deleted
NextCategories ==
    \/ \E name \in NameInputs : addCategory(name) /\ Capped /\ UNCHANGED dom
    \/ \E fields \in AddInputs : addWord(fields) /\ Capped /\ UNCHANGED dom
    \/ \E id \in CategoryIdInputs : deleteCategory(id) /\ UNCHANGED dom

SpecCategories == InitData /\ [][NextCategories]_vars

\* the study page: the user opens it from the home page, clicks the card and
\* the answer buttons, and the transition timers fire
NextCard ==
    \/ (started < MaxSessions /\ \E categoryId \in Scopes : startStudy(categoryId))
    \/ handleCardFlip
    \/ handleCorrect
    \/ handleWrong
    \/ transitionEnd

SpecCard == Init /\ [][NextCard]_vars

\* what the user types into the word form: an entry of category c2, an
\* entry of category c1 with blanks around the word, an entry without word
WordInputs ==
    {[japanese |-> "x", furigana |-> "f", korean |-> "k", categoryId |-> "c2"],
     [japanese |-> " t ", furigana |-> "", korean |-> "t", categoryId |-> "c1"],
     [japanese |-> " ", furigana |-> "", korean |-> "k", categoryId |-> "c1"]}

\* the word form of the settings page: the user types, clicks the edit
\* button of a listed word and clicks the button of the form
NextForm ==
    \/ \E values \in WordInputs : input(values)
    \/ \E id \in 1..MaxIds : (getWordById(id) # <<>> /\ handleEditWord(id))
    \/ clickAddWord /\ Capped

SpecForm == InitData /\ [][NextForm]_vars

\* the settings form alone, from the default settings
InitSettings ==
    /\ words = <<>>
    /\ settings = [dailyGoal        |-> DefaultDailyGoal,
                   graduationStreak |-> DefaultGraduationStreak,
                   grassLevel1      |-> <<DefaultGrassLevel1>>,
                   grassLevel2      |-> <<DefaultGrassLevel2>>,
                   grassLevel3      |-> <<DefaultGrassLevel3>>]
    /\ InitRest

NextSettings ==
    \E form \in [{"dailyGoal", "graduationStreak", "grassLevel1",
                  "grassLevel2", "grassLevel3"} -> FormInputs] :
        handleSaveSettings(form) /\ UNCHANGED dom

SpecSettings == InitSettings /\ [][NextSettings]_vars

\* a caller that starts, answers and clears sessions and keeps answering: an
\* answer that is possible is eventually given
NextLive ==
    \/ (started < MaxSessions /\ \E categoryId \in Scopes : startSession(categoryId))
          /\ UNCHANGED dom
    \/ clearSession /\ UNCHANGED dom
    \/ answerCorrect /\ UNCHANGED dom
    \/ answerWrong /\ UNCHANGED dom

SpecLive ==
    /\ Init /\ [][NextLive]_vars
    /\ WF_vars((answerCorrect \/ answerWrong) /\ UNCHANGED dom)

----------------------------------------------------------------------------
(* Vocabulary of the properties *)

\* the words of a sequence with wrongCount >= 1, and those with wrongCount = 0
isWrong(w) == w.wrongCount >= 1
isNew(w)   == w.wrongCount = 0
CountWrong(arr) == Len(SelectSeq(arr, isWrong))
CountNew(arr)   == Len(SelectSeq(arr, isNew))

\* the last call was startSession(scope) for one of the non-'wrong' scopes
SelectedFrom(scope) ==
    ret.op = "startSession" /\ ret.categoryId = scope /\ scope # "wrong"

\* the array the last startSession got from buildDailyWords
Selection == IF ret.ok THEN Sess.words ELSE <<>>

\* position of the word id in the store (no word is stored twice)
StorePos(id) == findIndex(words, id)

----------------------------------------------------------------------------
(* Properties of the daily selection, under SpecSelect: the store is the     *)
(* pool the last startSession selected from                                  *)

\* C1: for scope 'all' or a category and every dailyGoal >= 1, the selection
\* has dailyGoal words when the pool in scope has at least dailyGoal words,
\* and as many words as the pool when the pool has fewer.
QuotaInvariant ==
    \A scope \in Scopes :
        SelectedFrom(scope) =>
            Len(Selection) = Min(settings.dailyGoal, Len(poolOf(scope)))

\* C2: for scope 'all' or a category the selection holds exactly
\* min(W, max(dailyGoal - 2, 0)) words with wrongCount >= 1, W being their
\* number in the pool; no unselected wrong word of the pool has a higher
\* wrongCount than a selected one, and of two wrong words of equal wrongCount
\* the one stored first is selected first.
WrongFirstBias ==
    \A scope \in Scopes :
        SelectedFrom(scope) =>
            LET pool   == poolOf(scope)
                sel    == Selection
                selIds == {sel[i].id : i \in 1..Len(sel)}
            IN  /\ CountWrong(sel) =
                      Min(CountWrong(pool), Max(settings.dailyGoal - 2, 0))
                /\ \A i, j \in 1..Len(pool) :
                      (/\ isWrong(pool[i]) /\ isWrong(pool[j])
                       /\ pool[i].id \in selIds /\ pool[j].id \notin selIds)
                      => \/ pool[j].wrongCount < pool[i].wrongCount
                         \/ (pool[j].wrongCount = pool[i].wrongCount /\ i < j)

\* C3: for scope 'all' or a category, when dailyGoal >= 2 and the pool holds
\* at least 2 words with wrongCount = 0, the selection holds at least 2 words
\* with wrongCount = 0.
NewWordFloor ==
    \A scope \in Scopes :
        (/\ SelectedFrom(scope)
         /\ settings.dailyGoal >= 2
         /\ CountNew(poolOf(scope)) >= 2)
        => CountNew(Selection) >= 2

\* C3 witness: a selection of 2 new words from a pool whose wrong word did
\* not get a slot
NewWordFloorWitness ==
    /\ SelectedFrom("all") /\ ret.ok
    /\ settings.dailyGoal = 2
    /\ CountWrong(words) >= 1
    /\ CountNew(words) >= 2
    /\ CountNew(Sess.words) = 2

\* C4: for scope 'wrong' every selected word has wrongCount >= 1 and the
\* selection has min(dailyGoal, number of stored words with wrongCount >= 1)
\* words.
WrongModePurity ==
    (ret.op = "startSession" /\ ret.categoryId = "wrong") =>
        /\ \A i \in 1..Len(Selection) : Selection[i].wrongCount >= 1
        /\ Len(Selection) = Min(settings.dailyGoal, CountWrong(words))

\* C4 witness: a 'wrong' session of the 2 wrong words of two categories, from
\* a store that also holds a new word, which dailyGoal = 3 had room for
WrongModePurityWitness ==
    /\ ret.op = "startSession" /\ ret.categoryId = "wrong" /\ ret.ok
    /\ settings.dailyGoal = 3
    /\ CountWrong(words) = 2
    /\ CountNew(words) >= 1
    /\ Len(Sess.words) = 2
    /\ \E i, j \in 1..Len(Sess.words) :
          Sess.words[i].categoryId # Sess.words[j].categoryId

----------------------------------------------------------------------------
(* Properties of the session, under Spec *)

Completed == HasSession /\ Sess.currentIndex >= Len(Sess.words)

\* the step is an accepted answer (correct or not) on the word id
Answered(id, correct) ==
    /\ HasSession /\ session' # NoSession
    /\ Sess'.results = Append(Sess.results, [wordId |-> id, correct |-> correct])

AcceptedAnswer ==
    /\ HasSession /\ session' # NoSession
    /\ Len(Sess'.results) = Len(Sess.results) + 1

\* the stored word id before and after the step
Stored(id)     == words[StorePos(id)]
StoredNext(id) == words'[findIndex(words', id)]

\* the answer just given, when the last call was an accepted answer
LastResult == Sess.results[Len(Sess.results)]

\* C5: for a word at wrongCount > 0, correctStreak = 0 and graduationStreak g,
\* each of the first g - 1 consecutive correct answers leaves wrongCount
\* unchanged and positive, and the g-th sets wrongCount and correctStreak to 0.
GraduationStep ==
    \A id \in DOMAIN run :
        (run[id] >= 0 /\ StorePos(id) # 0 /\ Answered(id, TRUE)) =>
            /\ findIndex(words', id) # 0
            /\ IF run[id] + 1 < settings.graduationStreak
               THEN /\ Stored(id).wrongCount > 0
                    /\ StoredNext(id).wrongCount = Stored(id).wrongCount
               ELSE /\ run[id] + 1 = settings.graduationStreak
                    /\ Stored(id).wrongCount > 0
                    /\ StoredNext(id).wrongCount = 0
                    /\ StoredNext(id).correctStreak = 0

GraduationLaw == [][GraduationStep]_vars

\* C5 witness: with graduationStreak = 2, a word missed before has just been
\* answered correctly and is back at wrongCount = 0, correctStreak = 0: its
\* second correct answer in a row, the first being the one of the session
\* before
GraduationLawWitness ==
    /\ settings.graduationStreak = 2
    /\ started = 2
    /\ ret.op = "answer" /\ ~ret.null
    /\ LastResult.correct
    /\ \E i \in 1..Len(Sess.words) :
          /\ Sess.words[i].id = LastResult.wordId
          /\ Sess.words[i].wrongCount > 0
          /\ Sess.words[i].correctStreak = 1
    /\ Stored(LastResult.wordId).wrongCount = 0
    /\ Stored(LastResult.wordId).correctStreak = 0

\* C6: a wrong answer on a stored word sets its correctStreak to 0 and
\* increases its wrongCount by exactly 1.
StreakResetStep ==
    \A id \in DOMAIN run :
        (StorePos(id) # 0 /\ Answered(id, FALSE)) =>
            /\ findIndex(words', id) # 0
            /\ StoredNext(id).correctStreak = 0
            /\ StoredNext(id).wrongCount = Stored(id).wrongCount + 1

StreakResetLaw == [][StreakResetStep]_vars

\* C6 witness: a word selected with a streak of 1 has just been answered
\* wrongly and is stored with correctStreak = 0 and one more wrongCount
StreakResetLawWitness ==
    /\ ret.op = "answer" /\ ~ret.null
    /\ ~LastResult.correct
    /\ \E i \in 1..Len(Sess.words) :
          /\ Sess.words[i].id = LastResult.wordId
          /\ Sess.words[i].correctStreak >= 1
          /\ Stored(LastResult.wordId).wrongCount = Sess.words[i].wrongCount + 1
    /\ Stored(LastResult.wordId).correctStreak = 0

\* C7: a session has made no commit to the study log before it is completed
\* and exactly one from then on, made when currentIndex reached |words|, with
\* count = |words| = the number of cards answered; answers on the completed
\* session add none.
CompletionIdempotence ==
    HasSession =>
        IF Completed
        THEN /\ commits = <<Len(Sess.words)>>
             /\ Len(Sess.results) = Len(Sess.words)
             /\ Sess.currentIndex = Len(Sess.words)
        ELSE commits = <<>>

\* C7 witness: a completed session of 2 cards, one answered wrongly, on which
\* a further answer was tried and refused
CompletionIdempotenceWitness ==
    /\ Completed
    /\ Len(Sess.words) = 2
    /\ \E i \in 1..2 : ~Sess.results[i].correct
    /\ ret.op = "answer" /\ ret.null
    /\ commits = <<2>>

\* C8: the study log changes only in the answer step that brings currentIndex
\* to |words|; clearSession and startSession never write it.
NoPartialCommitStep ==
    studyLog' # studyLog =>
        /\ HasSession /\ session' # NoSession
        /\ started' = started
        /\ Sess'.words = Sess.words
        /\ AcceptedAnswer
        /\ Sess.currentIndex = Len(Sess.words) - 1
        /\ Sess'.currentIndex = Len(Sess.words)

NoPartialCommit == [][NoPartialCommitStep]_vars

\* C8 witness: the only session started was answered in part (a stored streak
\* shows it) and then cleared, and the study log is still empty
NoPartialCommitWitness ==
    /\ ret.op = "clearSession"
    /\ ~HasSession
    /\ started = 1
    /\ \E i \in 1..Len(words) : words[i].correctStreak >= 1
    /\ DOMAIN studyLog = {}

\* the step is a call startSession(ret'.categoryId)
StartSessionStep ==
    /\ ret'.op = "startSession"
    /\ (ret' # ret \/ started' # started)

\* C9: startSession(scope) fails exactly when the selection for the scope is
\* empty, and then changes no state; otherwise it installs a session with
\* currentIndex = 0, results = [], isFlipped = false and a non-empty selection,
\* replacing any prior session.
StartSessionStepLaw ==
    StartSessionStep =>
        LET scope == ret'.categoryId
        IN  IF ret'.ok
            THEN /\ buildDailyWords(scope) # {<<>>}
                 /\ session' # NoSession
                 /\ Sess'.words \in buildDailyWords(scope)
                 /\ Len(Sess'.words) >= 1
                 /\ Sess' = [categoryId   |-> scope,
                             words        |-> Sess'.words,
                             currentIndex |-> 0,
                             results      |-> <<>>,
                             isFlipped    |-> FALSE]
                 /\ UNCHANGED <<words, categories, settings, studyLog>>
            ELSE /\ buildDailyWords(scope) = {<<>>}
                 /\ UNCHANGED <<words, categories, settings, studyLog, date,
                                session>>

StartSessionLaw == [][StartSessionStepLaw]_vars

\* C9 witness: startSession('wrong') has failed on a store without wrong
\* words, and the session in progress is still there
StartSessionLawWitness ==
    /\ ret = [op |-> "startSession", categoryId |-> "wrong", ok |-> FALSE]
    /\ CountWrong(words) = 0
    /\ HasSession
    /\ Sess.currentIndex = 1
    /\ Len(Sess.results) = 1

\* C10: within one session getProgress().current never decreases, grows by
\* exactly 1 with each accepted answer and not otherwise, and equals total
\* only when the session is completed and no current card exists.
ProgressStep ==
    /\ (HasSession /\ session' # NoSession /\ started' = started) =>
          /\ getProgress'.current >= getProgress.current
          /\ getProgress'.total = getProgress.total
          /\ IF AcceptedAnswer
             THEN getProgress'.current = getProgress.current + 1
             ELSE getProgress'.current = getProgress.current
    /\ (session' # NoSession /\ getProgress'.current = getProgress'.total) =>
          /\ currentWord' = <<>>
          /\ Len(commits') = 1

ProgressMonotonicity == [][ProgressStep]_vars

\* C10 witness: a session of 2 cards with a turned card and current = 1, after
\* one answer and a flip
ProgressMonotonicityWitness ==
    /\ HasSession
    /\ getProgress.total = 2
    /\ getProgress.current = 1
    /\ Len(Sess.results) = 1
    /\ ret.op = "flipCard"
    /\ Sess.isFlipped

\* the step is a call of the public API named op (every call records itself
\* in ret; a call that changes nothing and returns what the call before
\* returned is a stuttering step)
Called(op) == ret'.op = op /\ vars' # vars

\* C12: with no session, flipCard, answerCorrect and answerWrong return their
\* neutral value and change no state, and currentWord is null; on a completed
\* session answerCorrect and answerWrong return null and change neither the
\* store, the study log nor the session, and currentWord is null.
DefensiveStep ==
    /\ (~HasSession /\ (Called("flipCard") \/ Called("answer"))) =>
          /\ ret'.null
          /\ UNCHANGED <<words, categories, settings, studyLog, date, session,
                         commits>>
    /\ (Completed /\ Called("answer")) =>
          /\ ret'.null
          /\ UNCHANGED <<words, categories, settings, studyLog, date, session,
                         commits>>
    /\ (~HasSession \/ Completed) => currentWord = <<>>

DefensiveNoOps == [][DefensiveStep]_vars

\* C12 witness: a session was answered in part (a stored streak shows it) and
\* cleared, and the answer tried after that returned null
DefensiveNoOpsWitness ==
    /\ ~HasSession
    /\ started = 1
    /\ ret = [op |-> "answer", null |-> TRUE]
    /\ \E i \in 1..Len(words) : words[i].correctStreak >= 1
    /\ DOMAIN studyLog = {}

\* C18: an answer on a session with a current card is accepted: it appends
\* one result for the current card, turns the card back, advances the index
\* by exactly 1 and returns index = the new currentIndex, total = |words| and
\* done = (index = total).
AnswerStep ==
    (currentWord # <<>> /\ Called("answer")) =>
        /\ ~ret'.null
        /\ session' # NoSession
        /\ \E correct \in BOOLEAN :
              Sess'.results = Append(Sess.results,
                                     [wordId  |-> currentWord[1].id,
                                      correct |-> correct])
        /\ Sess'.isFlipped = FALSE
        /\ Sess'.currentIndex = Sess.currentIndex + 1
        /\ Sess'.words = Sess.words
        /\ Sess'.categoryId = Sess.categoryId
        /\ ret'.index = Sess'.currentIndex
        /\ ret'.total = Len(Sess.words)
        /\ ret'.done = (ret'.index = ret'.total)

AnswerStepLaw == [][AnswerStep]_vars

\* C18 witness: the first of 2 cards has been answered: the status returned
\* is done = false, index = 1, total = 2 and the card is face down
AnswerStepLawWitness ==
    /\ HasSession
    /\ ret = [op |-> "answer", null |-> FALSE, done |-> FALSE,
              index |-> 1, total |-> 2]
    /\ Len(Sess.results) = 1
    /\ ~Sess.isFlipped

\* C20: flipCard on a session negates isFlipped, returns the new value and
\* changes nothing else; the second of two flips in a row restores the
\* session the first one found.
FlipStep ==
    (HasSession /\ Called("flipCard")) =>
        /\ session' = <<[Sess EXCEPT !.isFlipped = ~Sess.isFlipped]>>
        /\ ret'.value = ~Sess.isFlipped
        /\ UNCHANGED <<words, categories, settings, studyLog, date, started,
                       commits>>
        /\ (ret.op = "flipCard" /\ ~ret.null) =>
              session' = <<[Sess EXCEPT !.isFlipped = ~ret.value]>>

FlipLaw == [][FlipStep]_vars

\* C20 witness: the card of a session with one answer given was turned twice
\* and is face down again
FlipLawWitness ==
    /\ HasSession
    /\ Len(Sess.results) = 1
    /\ Sess.currentIndex = 1
    /\ ret = [op |-> "flipCard", null |-> FALSE, value |-> FALSE]
    /\ ~Sess.isFlipped


\* the session has a current card
Active == HasSession /\ ~Completed

\* C19: a session of n words holds as many results as its index says, is
\* completed exactly when n answers have been accepted, and the status of an
\* accepted answer has done = true exactly for the n-th; a session stops
\* being active only by its n-th accepted answer, by clearSession or by a new
\* startSession; and with a caller that keeps answering no session stays
\* active for ever: again and again there is no active session, or the
\* session is replaced again and again.
TerminationState ==
    HasSession =>
        /\ Len(Sess.results) = Sess.currentIndex
        /\ Sess.currentIndex <= Len(Sess.words)
        /\ Completed <=> Len(Sess.results) = Len(Sess.words)
        /\ (ret.op = "answer" /\ ~ret.null) =>
              ret.done = (Len(Sess.results) = Len(Sess.words))

TerminationStep ==
    (Active /\ ~(Active' /\ started' = started)) =>
        \/ /\ AcceptedAnswer
           /\ started' = started
           /\ Len(Sess'.results) = Len(Sess.words)
           /\ Completed'
        \/ Called("clearSession") /\ session' = NoSession
        \/ Called("startSession") /\ ret'.ok /\ started' = started + 1

----------------------------------------------------------------------------
(* Properties of the study log, under SpecDays *)

\* C11: the completion of a session of n words on day d adds n to the count
\* of the entry of d (0 when d has no entry yet), gives a new entry the scope
\* of the session and keeps the categoryId of an existing one, and leaves the
\* entries of all other days unchanged; so the entry of a day holds the sum
\* of the lengths of the sessions completed that day and the scope of the
\* first of them.
StudyLogStep ==
    commits' # commits /\ commits' # <<>> =>
        LET n    == Len(Sess.words)
            had  == date \in DOMAIN studyLog
        IN  /\ DOMAIN studyLog' = DOMAIN studyLog \cup {date}
            /\ \A d \in DOMAIN studyLog \ {date} : studyLog'[d] = studyLog[d]
            /\ studyLog'[date].count =
                  (IF had THEN studyLog[date].count ELSE 0) + n
            /\ studyLog'[date].categoryId =
                  (IF had THEN studyLog[date].categoryId ELSE Sess.categoryId)

StudyLogMerge == [][StudyLogStep]_vars

\* C11 witness: a session of 2 words of scope 'all' and then a session of 1
\* word of category c1 were completed on day 2, after midnight had passed:
\* the entry of day 2 has count 3 and categoryId 'all', and day 1 has none
StudyLogMergeWitness ==
    /\ date = 2
    /\ started = 2
    /\ Completed
    /\ Sess.categoryId = "c1"
    /\ Len(Sess.words) = 1
    /\ DOMAIN studyLog = {2}
    /\ studyLog[2] = [count |-> 3, categoryId |-> "all"]


----------------------------------------------------------------------------
(* Properties of the data layer, under SpecData *)

\* C16: every stored word's categoryId is the id of a stored category.
ForeignKey ==
    \A i \in 1..Len(words) : findIndex(categories, words[i].categoryId) # 0

\* C17: no two stored categories have the same name.
CategoryNamesUnique ==
    \A i, j \in 1..Len(categories) :
        categories[i].name = categories[j].name => i = j


----------------------------------------------------------------------------
(* Properties of a session whose store changes under it, under SpecStore   *)
(* (deletions) and SpecRestore (restored backup)                           *)

\* the positions of the results answered wrongly whose word is still stored
StillStored ==
    {i \in 1..Len(Sess.results) :
        ~Sess.results[i].correct /\ StorePos(Sess.results[i].wordId) # 0}

\* C13: at any point of a session getSessionResult returns total = |results|,
\* correct = the number of results with correct = true, wrong = total -
\* correct, the session's categoryId, and as wrongWords the stored records of
\* the wrongly answered words that are still stored, in answer order; a
\* deleted one is skipped, so |wrongWords| <= wrong.  Without a session it
\* returns null.
SessionResultLaw ==
    IF ~HasSession THEN getSessionResult = <<>>
    ELSE LET r == getSessionResult[1]
         IN  /\ r.total = Len(Sess.results)
             /\ r.correct = Cardinality({i \in 1..Len(Sess.results) :
                                            Sess.results[i].correct})
             /\ r.wrong = r.total - r.correct
             /\ r.correct + r.wrong = r.total
             /\ r.categoryId = Sess.categoryId
             /\ Len(r.wrongWords) = Cardinality(StillStored)
             /\ Len(r.wrongWords) <= r.wrong
             /\ \A i \in StillStored :
                   LET k == Cardinality({j \in StillStored : j <= i})
                   IN  r.wrongWords[k] = Stored(Sess.results[i].wordId)

\* C13 witness: two cards were answered wrongly and the word of one of them
\* was deleted: wrong = 2 and wrongWords holds the one word left
SessionResultLawWitness ==
    /\ HasSession
    /\ getSessionResult[1].total = 2
    /\ getSessionResult[1].wrong = 2
    /\ Len(getSessionResult[1].wrongWords) = 1
    /\ Len(words) = 1


\* C14: an answer on a current card whose word is no longer stored (the word
\* or its whole category was deleted after startSession) is accepted: it
\* leaves the store as it is (the word is not stored again, no other word is
\* touched), appends the result and advances the index; and the answer that
\* completes the session records a study of |words| cards.
DeletedWordStep ==
    /\ (/\ currentWord # <<>>
        /\ StorePos(currentWord[1].id) = 0
        /\ Called("answer")) =>
          /\ ~ret'.null
          /\ words' = words
          /\ categories' = categories
          /\ session' # NoSession
          /\ \E correct \in BOOLEAN :
                Sess'.results = Append(Sess.results,
                                       [wordId  |-> currentWord[1].id,
                                        correct |-> correct])
          /\ Sess'.currentIndex = Sess.currentIndex + 1
    /\ (AcceptedAnswer /\ Completed') =>
          /\ commits' = <<Len(Sess.words)>>
          /\ date \in DOMAIN studyLog'
          /\ studyLog'[date].count = Len(Sess.words)

DeletedWordLaw == [][DeletedWordStep]_vars

\* C14 witness: a session of 2 cards is completed, the last answer was given
\* on a word deleted during the session, the store holds the other word only
\* and the study log counts 2 cards
DeletedWordLawWitness ==
    /\ Completed
    /\ Len(Sess.words) = 2
    /\ ret.op = "answer" /\ ~ret.null /\ ret.done
    /\ StorePos(LastResult.wordId) = 0
    /\ Len(words) = 1
    /\ Len(categories) = 2
    /\ studyLog[date].count = 2

\* C15: the counters an answer writes for a stored word are computed from
\* the counters stored immediately before the answer, whatever the copy in
\* session.words says: a wrong answer stores wrongCount + 1 and correctStreak
\* 0; a correct answer stores correctStreak + 1, or 0 and 0 when wrongCount >
\* 0 and correctStreak + 1 >= graduationStreak; no other field and no other
\* word changes.
StoredCountersStep ==
    \A id \in 1..StoreWords :
        (/\ currentWord # <<>> /\ currentWord[1].id = id
         /\ StorePos(id) # 0
         /\ Called("answer")) =>
            LET old     == Stored(id)
                correct == Sess'.results[Len(Sess'.results)].correct
                graduates == /\ old.wrongCount > 0
                             /\ old.correctStreak + 1 >= settings.graduationStreak
            IN  /\ Len(words') = Len(words)
                /\ \A i \in 1..Len(words) :
                      i # StorePos(id) => words'[i] = words[i]
                /\ StoredNext(id) =
                      [old EXCEPT
                         !.wrongCount =
                            IF correct
                            THEN (IF graduates THEN 0 ELSE old.wrongCount)
                            ELSE old.wrongCount + 1,
                         !.correctStreak =
                            IF correct /\ ~graduates
                            THEN old.correctStreak + 1 ELSE 0]

StoredCountersLaw == [][StoredCountersStep]_vars

\* C15 witness: a word selected with wrongCount = 2 was set back to wrongCount
\* = 1 in the store by the restored backup and then answered wrongly: it is
\* stored with wrongCount = 2, not 3
StoredCountersLawWitness ==
    /\ HasSession
    /\ ret.op = "answer" /\ ~ret.null
    /\ ~LastResult.correct
    /\ StorePos(LastResult.wordId) # 0
    /\ Stored(LastResult.wordId).wrongCount = 2
    /\ \E i \in 1..Len(Sess.words) :
          /\ Sess.words[i].id = LastResult.wordId
          /\ Sess.words[i].wrongCount = 2


----------------------------------------------------------------------------
(* More properties of the daily selection, under SpecSelect and            *)
(* SpecSelectWide                                                          *)

\* C21: for scope 'all' or a category the selection holds min(N, dailyGoal -
\* number of selected wrong words) words with wrongCount = 0 (none when that
\* is negative), N being their number in the pool, and they are the oldest:
\* no unselected word with wrongCount = 0 of the pool has a createdAt
\* strictly earlier than a selected one.
OldestFirstNew ==
    \A scope \in Scopes :
        SelectedFrom(scope) =>
            LET pool   == poolOf(scope)
                sel    == Selection
                selIds == {sel[i].id : i \in 1..Len(sel)}
            IN  /\ CountNew(sel) =
                      Max(0, Min(CountNew(pool),
                                 settings.dailyGoal - CountWrong(sel)))
                /\ \A i, j \in 1..Len(pool) :
                      (/\ isNew(pool[i]) /\ isNew(pool[j])
                       /\ pool[i].id \in selIds /\ pool[j].id \notin selIds)
                      => ~(pool[j].createdAt < pool[i].createdAt)


\* the elements of an array
Elements(arr) == {arr[i] : i \in 1..Len(arr)}

\* C22: the words of a session started for a category all belong to that
\* category; for every scope each word of the session is a word of the store
\* as it was at startSession and no word id occurs twice; and the session's
\* words are a permutation of the selected array (of a part of the wrong
\* words, for scope 'wrong'): the shuffle drops and duplicates nothing.
ScopeContainment ==
    (ret.op = "startSession" /\ ret.ok) =>
        LET scope == ret.categoryId
            sel   == Sess.words
        IN  /\ scope \in Categories =>
                  \A i \in 1..Len(sel) : sel[i].categoryId = scope
            /\ Elements(sel) \subseteq Elements(words)
            /\ \A i, j \in 1..Len(sel) : sel[i].id = sel[j].id => i = j
            /\ IF scope = "wrong"
               THEN /\ Elements(sel) \subseteq Elements(getWrongWords)
                    /\ Len(sel) = Min(settings.dailyGoal, Len(getWrongWords))
               ELSE LET selected == selectedOf(poolOf(scope), settings.dailyGoal)
                    IN  /\ Elements(sel) = Elements(selected)
                        /\ Len(sel) = Len(selected)

\* C22 witness: a session of category c1 of 2 words, in the other order than
\* the store's, from a store that also holds a word of c2
ScopeContainmentWitness ==
    /\ ret = [op |-> "startSession", categoryId |-> "c1", ok |-> TRUE]
    /\ Len(Sess.words) = 2
    /\ Sess.words[1].id > Sess.words[2].id
    /\ isNew(Sess.words[1]) /\ isNew(Sess.words[2])
    /\ \E i \in 1..Len(words) : words[i].categoryId = "c2"

\* C25: a started session has at most dailyGoal words, for every scope.
SessionLengthBound ==
    (ret.op = "startSession" /\ ret.ok) =>
        Len(Sess.words) <= settings.dailyGoal


----------------------------------------------------------------------------
(* Invariants of the session and of the counters, under Spec *)

\* C26: a session has at least one word, 0 <= currentIndex <= |words|,
\* |results| = currentIndex, and the i-th result is the answer on the i-th
\* word; flipCard and the answers never change the session's words or its
\* categoryId (getProgress and getSessionResult only read).
SessionStructureState ==
    HasSession =>
        /\ Len(Sess.words) >= 1
        /\ 0 <= Sess.currentIndex /\ Sess.currentIndex <= Len(Sess.words)
        /\ Len(Sess.results) = Sess.currentIndex
        /\ \A i \in 1..Len(Sess.results) :
              Sess.results[i].wordId = Sess.words[i].id

SessionStructureStep ==
    (HasSession /\ (Called("flipCard") \/ Called("answer"))) =>
        /\ session' # NoSession
        /\ Sess'.words = Sess.words
        /\ Sess'.categoryId = Sess.categoryId

SessionStructure ==
    /\ []SessionStructureState
    /\ [][SessionStructureStep]_vars

\* C26 witness: a completed session of 2 words presented in the other order
\* than the store's, with the 2 results in the order of presentation
SessionStructureWitness ==
    /\ Completed
    /\ Len(Sess.words) = 2
    /\ Sess.words[1].id = 2 /\ Sess.words[2].id = 1
    /\ Sess.results[1].wordId = 2 /\ Sess.results[2].wordId = 1
    /\ Len(words) = 2

\* C27: every stored word has wrongCount >= 0 and correctStreak >= 0, a word
\* with wrongCount > 0 has correctStreak < graduationStreak, and wrongCount
\* decreases only by being set to 0, together with correctStreak, by a
\* correct answer on the word.
CounterState ==
    \A i \in 1..Len(words) :
        /\ words[i].wrongCount >= 0
        /\ words[i].correctStreak >= 0
        /\ words[i].wrongCount > 0 =>
              words[i].correctStreak < settings.graduationStreak

CounterStep ==
    words' # words =>
        \A id \in 1..StoreWords :
            (/\ StorePos(id) # 0 /\ findIndex(words', id) # 0
             /\ StoredNext(id).wrongCount < Stored(id).wrongCount) =>
                /\ StoredNext(id).wrongCount = 0
                /\ StoredNext(id).correctStreak = 0
                /\ Answered(id, TRUE)

CounterInvariant ==
    /\ []CounterState
    /\ [][CounterStep]_vars

\* C27 witness: with graduationStreak = 2, a word missed twice has been
\* answered correctly once since: wrongCount = 2, correctStreak = 1
CounterInvariantWitness ==
    /\ settings.graduationStreak = 2
    /\ \E i \in 1..Len(words) :
          words[i].wrongCount = 2 /\ words[i].correctStreak = 1


----------------------------------------------------------------------------
(* Properties of deleteCategory, under SpecCategories *)

\* C23: deleteCategory(id) on a stored category returns ok and removes that
\* category and exactly the words whose categoryId is id, every other
\* category and word staying as it is; on an unknown id it returns an error
\* and changes neither categories nor words.
DeleteCategoryStep ==
    Called("deleteCategory") =>
        LET id == ret'.id
        IN  IF \E c \in Elements(categories) : c.id = id
            THEN /\ ret'.ok
                 /\ Elements(categories') =
                       {c \in Elements(categories) : c.id # id}
                 /\ Len(categories') = Len(categories) - 1
                 /\ Elements(words') =
                       {w \in Elements(words) : w.categoryId # id}
                 /\ Len(words') = Cardinality(Elements(words'))
            ELSE /\ ~ret'.ok
                 /\ UNCHANGED <<words, categories>>

DeleteCategoryLaw == [][DeleteCategoryStep]_vars

\* C23 witness: category c1 was deleted with its word; the word added to c2,
\* the category c2 and the category added since are still stored
DeleteCategoryLawWitness ==
    /\ ret = [op |-> "deleteCategory", id |-> "c1", ok |-> TRUE]
    /\ Len(words) = 1
    /\ words[1].id = 2 /\ words[1].categoryId = "c2"
    /\ {categories[i].id : i \in 1..Len(categories)} = {"c2", "c3"}


----------------------------------------------------------------------------
(* Properties of the settings form, under SpecSettings *)

\* C24: the stored settings always have dailyGoal >= 1, graduationStreak >= 1
\* and three grass levels that are numbers with grassLevel1 < grassLevel2 <
\* grassLevel3: a form with an invalid or non-numeric input is not stored.
SettingsValidation ==
    /\ settings.dailyGoal >= 1
    /\ settings.graduationStreak >= 1
    /\ ~isNaN(settings.grassLevel1)
    /\ ~isNaN(settings.grassLevel2)
    /\ ~isNaN(settings.grassLevel3)
    /\ settings.grassLevel1[1] < settings.grassLevel2[1]
    /\ settings.grassLevel2[1] < settings.grassLevel3[1]


----------------------------------------------------------------------------
(* What each call leaves alone, under SpecEdit *)

\* the word at position i differs after the step in the keys of keys at most
ChangesOnly(i, keys) ==
    \A key \in DOMAIN words[i] \ keys : words'[i][key] = words[i][key]

\* C28: the stored words change only by an accepted answer or by updateWord.
\* An accepted answer changes wrongCount and correctStreak of the answered
\* word only and leaves every other word, the categories and the settings
\* unchanged; updateWord changes japanese, furigana, korean and categoryId of
\* its word only and leaves id, wrongCount, correctStreak and createdAt
\* unchanged; startSession, flipCard and clearSession change no stored word.
FrameStep ==
    /\ DOMAIN words' = DOMAIN words
    /\ words' # words => (AcceptedAnswer \/ Called("updateWord"))
    /\ AcceptedAnswer =>
          /\ \A i \in DOMAIN words :
                IF words[i].id = currentWord[1].id
                THEN ChangesOnly(i, {"wrongCount", "correctStreak"})
                ELSE words'[i] = words[i]
          /\ UNCHANGED <<categories, settings>>
    /\ Called("updateWord") =>
          /\ \A i \in DOMAIN words :
                ChangesOnly(i, {"japanese", "furigana", "korean", "categoryId"})
          /\ \A i, j \in DOMAIN words :
                (words'[i] # words[i] /\ words'[j] # words[j]) => i = j
          /\ UNCHANGED <<categories, settings>>
    /\ (Called("startSession") \/ Called("flipCard") \/ Called("clearSession"))
          => words' = words

FrameLaw == [][FrameStep]_vars

\* C28 witness: a word of category c1 that was answered correctly (its streak
\* shows it) has then been edited: its four form fields changed, its counters
\* and its creation day did not
FrameLawWitness ==
    /\ ret = [op |-> "updateWord", ok |-> TRUE]
    /\ \E i \in DOMAIN words :
          /\ words[i].japanese = "x" /\ words[i].furigana = "f"
          /\ words[i].korean = "k" /\ words[i].categoryId = "c2"
          /\ words[i].id = 1
          /\ words[i].wrongCount >= 1 /\ words[i].correctStreak >= 1
          /\ words[i].createdAt = 1

----------------------------------------------------------------------------
(* Properties of the study page, under SpecCard *)

\* C29: under any interleaving of card clicks, button clicks and transition
\* timers, an answer is recorded only for the word whose content the card
\* shows.
AnswerMatchesCardStep ==
    AcceptedAnswer => currentWord[1].id = card.rendered

AnswerMatchesCard == [][AnswerMatchesCardStep]_vars


----------------------------------------------------------------------------
(* Properties of the word form, under SpecForm *)

\* the values of the form are valid: a word, a meaning, a stored category
ValidForm ==
    /\ trim(wordForm.japanese) # "" /\ trim(wordForm.korean) # ""
    /\ hasCategory(Store, wordForm.categoryId)

\* C30: after handleEditWord(id), one click on the button with valid values
\* leaves the number of stored words unchanged, gives the word id exactly
\* the entered japanese, furigana, korean and categoryId, and changes no
\* other word.
SaveEditStep ==
    (/\ wordForm.onclick.handler = "handleSaveEdit"
     /\ StorePos(wordForm.onclick.id) # 0
     /\ ValidForm
     /\ ret'.op = "clickAddWord") =>
        /\ Len(words') = Len(words)
        /\ \A i \in 1..Len(words) :
              IF words[i].id = wordForm.onclick.id
              THEN words'[i] = [words[i] EXCEPT
                                  !.japanese = trim(wordForm.japanese),
                                  !.furigana = trim(wordForm.furigana),
                                  !.korean = trim(wordForm.korean),
                                  !.categoryId = wordForm.categoryId]
              ELSE words'[i] = words[i]

SaveEdit == [][SaveEditStep]_vars


====
